---- MODULE Spec2Model ----
(***************************************************************************)
(* Rotation engine of rotation_tool/state_manager.py: archetype catalog,   *)
(* compute_segments, compute_default_boundaries, apply_boundaries and      *)
(* team_oncourt_steps.                                                     *)
(*                                                                         *)
(* Numbers.  The program computes with Python floats.  The model computes  *)
(* with exact rationals <<n, d>> (d > 0, lowest terms), in minutes, so     *)
(* 48.0 is <<48, 1>> and 0.001 is <<1, 1000>>.  IEEE rounding (relative     *)
(* error about 1e-16) is not modelled.                                     *)
(*                                                                         *)
(* Indices.  Python lists are 0-based, TLA+ sequences 1-based: stint i of  *)
(* the source is position i+1 of the model.                                *)
(***************************************************************************)
EXTENDS Integers, Sequences, FiniteSets, TLC

(***************************************************************************)
(* Exact rational arithmetic standing for Python float arithmetic.         *)
(***************************************************************************)
RECURSIVE GCD(_, _)
GCD(a, b) ==
    IF b = 0 THEN a ELSE GCD(b, a % b)

Abs(n) ==
    IF n < 0 THEN -n ELSE n

\* the rational n/d in lowest terms with a positive denominator
Rat(n, d) ==
    LET s == IF d < 0 THEN -1 ELSE 1
        g == GCD(Abs(n), Abs(d))
    IN  <<(s * n) \div g, (s * d) \div g>>

Num(n) ==
    <<n, 1>>

RAdd(a, b) ==
    LET g == GCD(a[2], b[2])
    IN  Rat(a[1] * (b[2] \div g) + b[1] * (a[2] \div g), (a[2] \div g) * b[2])

RNeg(a) ==
    <<-a[1], a[2]>>

RSub(a, b) ==
    RAdd(a, RNeg(b))

\* cross-cancelled before multiplying, so that intermediate products stay small
RMul(a, b) ==
    LET g1 == GCD(Abs(a[1]), b[2])
        g2 == GCD(Abs(b[1]), a[2])
        h1 == IF g1 = 0 THEN 1 ELSE g1
        h2 == IF g2 = 0 THEN 1 ELSE g2
    IN  Rat((a[1] \div h1) * (b[1] \div h2), (a[2] \div h2) * (b[2] \div h1))

\* a / b for b # 0
RDiv(a, b) ==
    RMul(a, Rat(b[2], b[1]))

RECURSIVE FracLe(_, _, _, _)
\* n1/d1 <= n2/d2 for 0 <= n1 < d1 and 0 <= n2 < d2, by comparing the reciprocals'
\* integer parts and then their fractional parts, so that nothing is multiplied
FracLe(n1, d1, n2, d2) ==
    IF n1 = 0 THEN TRUE
    ELSE IF n2 = 0 THEN FALSE
    ELSE IF d2 \div n2 # d1 \div n1 THEN d2 \div n2 < d1 \div n1
    ELSE FracLe(d2 % n2, n2, d1 % n1, n1)

\* a <= b, comparing integer parts first and the fractional parts after
RLe(a, b) ==
    IF a[1] \div a[2] # b[1] \div b[2]
    THEN a[1] \div a[2] < b[1] \div b[2]
    ELSE FracLe(a[1] % a[2], a[2], b[1] % b[2], b[2])

RLt(a, b) ==
    ~RLe(b, a)

\* Python max(a, b): b only when b > a
RMax(a, b) ==
    IF RLt(a, b) THEN b ELSE a

\* Python min(a, b): b only when b < a
RMin(a, b) ==
    IF RLt(b, a) THEN b ELSE a

RAbs(a) ==
    <<Abs(a[1]), a[2]>>

RECURSIVE RSumAt(_, _)
\* sum(seq[i] for i in idx)
RSumAt(seq, idx) ==
    IF idx = <<>> THEN Num(0)
    ELSE RAdd(seq[Head(idx)], RSumAt(seq, Tail(idx)))

Zero ==
    Num(0)

\* the 48.0 of the source: the length of a game in minutes
FullGame ==
    Num(48)

\* the 0.001 of compute_default_boundaries and of the editor's min_gap
DefaultGap ==
    <<1, 1000>>

(***************************************************************************)
(* archetypes.py: the catalog.                                             *)
(***************************************************************************)
None ==
    "<None>"

ARCHETYPES ==
    << [id |-> "StarterCloserThreeStints", starter |-> TRUE,
        stint_pattern |-> <<"on", "off", "on", "off", "on">>],
       [id |-> "StarterCloserFourStints", starter |-> TRUE,
        stint_pattern |-> <<"on", "off", "on", "off", "on", "off", "on">>],
       [id |-> "StarterCloserFiveStints", starter |-> TRUE,
        stint_pattern |-> <<"on", "off", "on", "off", "on", "off", "on", "off", "on">>],
       [id |-> "NonStarterNonCloserOneStint", starter |-> FALSE,
        stint_pattern |-> <<"off", "on", "off">>],
       [id |-> "NonStarterNonCloserTwoStints", starter |-> FALSE,
        stint_pattern |-> <<"off", "on", "off", "on", "off">>],
       [id |-> "NonStarterNonCloserThreeStints", starter |-> FALSE,
        stint_pattern |-> <<"off", "on", "off", "on", "off", "on", "off">>],
       [id |-> "NonStarterCloserThreeStints", starter |-> FALSE,
        stint_pattern |-> <<"off", "on", "off", "on", "off", "on">>],
       [id |-> "NonStarterCloserFourStints", starter |-> FALSE,
        stint_pattern |-> <<"off", "on", "off", "on", "off", "on", "off", "on">>],
       [id |-> "GarbageTime", starter |-> FALSE,
        stint_pattern |-> <<"off">>],
       [id |-> "Star", starter |-> TRUE,
        stint_pattern |-> <<"on", "off", "on", "off", "on">>] >>

\* cfg.archetypes: id -> archetype
get_config ==
    [id \in {ARCHETYPES[k].id : k \in 1..Len(ARCHETYPES)} |->
        ARCHETYPES[CHOOSE k \in 1..Len(ARCHETYPES) :
            /\ ARCHETYPES[k].id = id
            /\ \A j \in (k + 1)..Len(ARCHETYPES) : ARCHETYPES[j].id # id]]

\* `not player.archetype_id` is false and cfg.archetypes.get(...) finds an entry
Resolves(archetype_id) ==
    /\ archetype_id # None
    /\ archetype_id # ""
    /\ archetype_id \in DOMAIN get_config

\* arch.stint_pattern of the player's archetype
PatternOf(player) ==
    get_config[player.archetype_id].stint_pattern

RECURSIVE IndicesOf(_, _, _)
\* the positions i..Len(pattern) of pattern that carry (want) or do not carry tag "on"
IndicesOf(pattern, i, want) ==
    IF i > Len(pattern) THEN <<>>
    ELSE IF (pattern[i] = "on") = want
         THEN <<i>> \o IndicesOf(pattern, i + 1, want)
         ELSE IndicesOf(pattern, i + 1, want)

\* (on_idx, off_idx) of the archetype; ([], []) when it is not in the catalog
split_on_off_indices(archetype_id) ==
    IF archetype_id \notin DOMAIN get_config
    THEN <<(<<>>), (<<>>)>>
    ELSE LET pattern == get_config[archetype_id].stint_pattern
         IN  <<IndicesOf(pattern, 1, TRUE), IndicesOf(pattern, 1, FALSE)>>

(***************************************************************************)
(* state_manager.py: segments.                                             *)
(***************************************************************************)
\* mutant: a short list is padded with 1.0
PadRaw_Ones(stints_raw, L) ==
    [i \in 1..(IF Len(stints_raw) > L THEN Len(stints_raw) ELSE L) |->
        IF i <= Len(stints_raw) THEN stints_raw[i] ELSE Num(1)]

\* raw padded with 0.0 up to length L (never shortened)
PadRaw(stints_raw, L) ==
    [i \in 1..(IF Len(stints_raw) > L THEN Len(stints_raw) ELSE L) |->
        IF i <= Len(stints_raw) THEN stints_raw[i] ELSE Zero]

\* mutant: every group gets equal shares, whatever its weights sum to
FillDefaults_EqualShares(pattern, raw, on_idx, off_idx) ==
    [i \in 1..Len(pattern) |->
        IF pattern[i] = "on" THEN Rat(1, Len(on_idx)) ELSE Rat(1, Len(off_idx))]

\* a group whose weights sum to 0 gets equal shares; the result is raw[:L]
FillDefaults(pattern, raw, on_idx, off_idx) ==
    LET fill_on  == on_idx # <<>> /\ RSumAt(raw, on_idx) = Zero
        fill_off == off_idx # <<>> /\ RSumAt(raw, off_idx) = Zero
    IN  SubSeq([i \in 1..Len(raw) |->
                   IF i <= Len(pattern) /\ pattern[i] = "on"
                   THEN (IF fill_on THEN Rat(1, Len(on_idx)) ELSE raw[i])
                   ELSE IF i <= Len(pattern) /\ pattern[i] # "on"
                   THEN (IF fill_off THEN Rat(1, Len(off_idx)) ELSE raw[i])
                   ELSE raw[i]],
               1, Len(pattern))

ensure_default_percentages(player) ==
    IF ~Resolves(player.archetype_id)
    THEN player.stints_raw
    ELSE FillDefaults(PatternOf(player),
                      PadRaw(player.stints_raw, Len(PatternOf(player))),
                      split_on_off_indices(player.archetype_id)[1],
                      split_on_off_indices(player.archetype_id)[2])

\* mutant: expected_minutes is used unclamped
OnTotal_Unclamped(expected_minutes) ==
    expected_minutes

\* mutant: the on stints share the whole game
OnTotal_WholeGame(expected_minutes) ==
    FullGame

\* on_total = max(0.0, min(48.0, float(player.expected_minutes or 0.0)))
OnTotal(expected_minutes) ==
    RMax(Zero, RMin(FullGame, expected_minutes))

\* mutant: the off stints share what the on stints share
OffTotal_Mirror(expected_minutes) ==
    OnTotal(expected_minutes)

\* mutant: the off stints share the whole game
OffTotal_WholeGame(expected_minutes) ==
    FullGame

\* off_total = max(0.0, 48.0 - on_total)
OffTotal(expected_minutes) ==
    RMax(Zero, RSub(FullGame, OnTotal(expected_minutes)))

\* pct * on_total for an "on" stint, pct * off_total for an "off" stint,
\* 0.0 when the group total is not positive
StintDurations(pattern, raw, on_total, off_total) ==
    [i \in 1..Len(pattern) |->
        LET pct == IF i <= Len(raw) THEN raw[i] ELSE Zero
        IN  IF pattern[i] = "on"
            THEN (IF RLt(Zero, on_total) THEN RMul(pct, on_total) ELSE Zero)
            ELSE (IF RLt(Zero, off_total) THEN RMul(pct, off_total) ELSE Zero)]

\* the durations list, in archetype order
Durations(player) ==
    StintDurations(PatternOf(player),
                   ensure_default_percentages(player),
                   OnTotal(player.expected_minutes),
                   OffTotal(player.expected_minutes))

RECURSIVE Accumulate(_, _, _, _)
\* the loop that turns durations into (start, end, tag), from stint i at time t
Accumulate(pattern, durations, i, t) ==
    IF i > Len(pattern) THEN <<>>
    ELSE LET d     == RMax(Zero, durations[i])
             start == t
             end   == RMin(FullGame, RAdd(start, d))
         IN  <<(<<start, end, pattern[i]>>)>> \o Accumulate(pattern, durations, i + 1, end)

\* mutant: the drift guard left out
ForceLastEnd_NoGuard(segs) ==
    segs

\* the drift guard: the last segment ends at 48.0
ForceLastEnd(segs) ==
    IF segs = <<>> THEN segs
    ELSE [segs EXCEPT ![Len(segs)] = <<segs[Len(segs)][1], FullGame, segs[Len(segs)][3]>>]

compute_segments(player) ==
    IF ~Resolves(player.archetype_id)
    THEN <<>>
    ELSE ForceLastEnd(Accumulate(PatternOf(player), Durations(player), 1, Zero))

\* compute_segments past the catalog lookup, for an archetype with this pattern
SegmentsOf(pattern, expected_minutes, stints_raw) ==
    ForceLastEnd(
        Accumulate(pattern,
                   StintDurations(pattern,
                                  FillDefaults(pattern,
                                               PadRaw(stints_raw, Len(pattern)),
                                               IndicesOf(pattern, 1, TRUE),
                                               IndicesOf(pattern, 1, FALSE)),
                                  OnTotal(expected_minutes),
                                  OffTotal(expected_minutes)),
                   1, Zero))

(***************************************************************************)
(* state_manager.py: the boundary editor.                                  *)
(***************************************************************************)
RECURSIVE ClampIncreasing(_, _, _)
\* the loop of compute_default_boundaries: val = max(last + 0.001, min(48.0, e))
ClampIncreasing(ends, i, last) ==
    IF i > Len(ends) THEN <<>>
    ELSE LET val == RMax(RAdd(last, DefaultGap), RMin(FullGame, ends[i]))
         IN  <<val>> \o ClampIncreasing(ends, i + 1, val)

\* the ends of all segments but the last, clamped and made increasing
DefaultBoundaries(segs) ==
    IF segs = <<>> THEN <<>>
    ELSE ClampIncreasing([i \in 1..(Len(segs) - 1) |-> segs[i][2]], 1, Zero)

compute_default_boundaries(player) ==
    DefaultBoundaries(compute_segments(player))

\* mutant: no room kept for the boundaries still to come
UpperBound_NoRoom(L, k, min_gap) ==
    FullGame

\* 48.0 - (L - 1 - (k + 1)) * min_gap, with k the source's k + 1
UpperBound(L, k, min_gap) ==
    RSub(FullGame, RMul(Num(L - 1 - k), min_gap))

\* mutant: the lower clamp forgets the gap
SanitizedValue_NoGap(raw, last, upper, min_gap) ==
    RMax(last, RMin(upper, raw))

\* val = max(last + min_gap, min(upper, raw))
SanitizedValue(raw, last, upper, min_gap) ==
    RMax(RAdd(last, min_gap), RMin(upper, raw))

RECURSIVE Sanitize(_, _, _, _, _)
\* the sanitizing loop of apply_boundaries; k is the source's k + 1
Sanitize(ends, L, min_gap, k, last) ==
    IF k > L - 1 THEN <<>>
    ELSE LET raw == IF k <= Len(ends) THEN ends[k] ELSE RAdd(last, min_gap)
             val == SanitizedValue(raw, last, UpperBound(L, k, min_gap), min_gap)
         IN  <<val>> \o Sanitize(ends, L, min_gap, k + 1, val)

\* out_ends of apply_boundaries for an archetype of L stints
out_ends(L, ends, min_gap) ==
    Sanitize(SubSeq(ends, 1, IF Len(ends) < L - 1 THEN Len(ends) ELSE L - 1),
             L, min_gap, 1, Zero)

\* durations[i] = max(0.0, seg_ends[i] - seg_starts[i]) of the segments the boundaries imply
BoundaryDurations(L, oe) ==
    [i \in 1..L |->
        LET seg_start == IF i = 1 THEN Zero ELSE oe[i - 1]
            seg_end   == IF i = L THEN FullGame ELSE oe[i]
        IN  RMax(Zero, RSub(seg_end, seg_start))]

\* mutant: the on total is written back in seconds
NewExpectedMinutes_Seconds(on_total) ==
    RMul(Num(60), on_total)

\* mutant: the off total is written instead of the on total
NewExpectedMinutes_OffTotal(on_total) ==
    RMax(Zero, RMin(FullGame, RSub(FullGame, on_total)))

\* player.expected_minutes = max(0.0, min(48.0, on_total))
NewExpectedMinutes(on_total) ==
    RMax(Zero, RMin(FullGame, on_total))

\* mutant: every duration is divided by the whole game instead of its group total
NewStintsRaw_OverGame(pattern, durations, on_total, off_total) ==
    [i \in 1..Len(pattern) |-> RDiv(durations[i], FullGame)]

\* raw[i] = durations[i] / group total, 0.0 when the group total is not positive
NewStintsRaw(pattern, durations, on_total, off_total) ==
    [i \in 1..Len(pattern) |->
        IF pattern[i] = "on"
        THEN (IF RLt(Zero, on_total) THEN RDiv(durations[i], on_total) ELSE Zero)
        ELSE (IF RLt(Zero, off_total) THEN RDiv(durations[i], off_total) ELSE Zero)]

\* the early returns of apply_boundaries: no archetype id, unknown id, L <= 0
ReturnsEarly(player) ==
    \/ ~Resolves(player.archetype_id)
    \/ Len(get_config[player.archetype_id].stint_pattern) <= 0

\* mutant: the weights are written, expected_minutes is left as it was
Rebuild_WeightsOnly(player, durations, on_total, off_total) ==
    [player EXCEPT
        !.stints_raw = NewStintsRaw(PatternOf(player), durations, on_total, off_total)]

\* apply_boundaries past its early returns: sanitize, rebuild, write back
\* the write-back: expected_minutes from the on total, stints_raw from the durations
Rebuild(player, durations, on_total, off_total) ==
    [player EXCEPT
        !.expected_minutes = NewExpectedMinutes(on_total),
        !.stints_raw = NewStintsRaw(PatternOf(player), durations, on_total, off_total)]

\* on_total and off_total of the durations the boundaries imply
Totals(player, durations) ==
    Rebuild(player, durations,
            RSumAt(durations, split_on_off_indices(player.archetype_id)[1]),
            RSumAt(durations, split_on_off_indices(player.archetype_id)[2]))

WriteBack(player, ends, min_gap) ==
    Totals(player,
           BoundaryDurations(Len(PatternOf(player)),
                             out_ends(Len(PatternOf(player)), ends, min_gap)))

\* mutant: a missing archetype is treated as an empty pattern instead of returning
apply_boundaries_NoEarlyReturn(player, ends, min_gap) ==
    IF ReturnsEarly(player)
    THEN [player EXCEPT !.expected_minutes = NewExpectedMinutes(Zero),
                        !.stints_raw = <<>>]
    ELSE WriteBack(player, ends, min_gap)

\* the player after apply_boundaries(player, ends, min_gap)
apply_boundaries(player, ends, min_gap) ==
    IF ReturnsEarly(player) THEN player
    ELSE WriteBack(player, ends, min_gap)

(***************************************************************************)
(* state_manager.py: the occupancy aggregator.                             *)
(***************************************************************************)
\* mutant: zero-length "on" segments emit events too
CountsOnCourt_AnyOn(seg) ==
    seg[3] = "on"

\* if tag == "on" and e > s
CountsOnCourt(seg) ==
    seg[3] = "on" /\ RLt(seg[1], seg[2])

RECURSIVE SegmentEvents(_, _)
\* the (s, +1), (e, -1) pairs of the "on" segments with e > s, from segment i on
SegmentEvents(segs, i) ==
    IF i > Len(segs) THEN <<>>
    ELSE LET s == segs[i][1]
             e == segs[i][2]
         IN  (IF CountsOnCourt(segs[i])
              THEN << <<RMax(Zero, RMin(FullGame, s)), 1>>,
                      <<RMax(Zero, RMin(FullGame, e)), -1>> >>
              ELSE <<>>)
             \o SegmentEvents(segs, i + 1)

RECURSIVE PlayerEvents(_, _)
\* the events of players i.. of the roster, in roster order
PlayerEvents(players, i) ==
    IF i > Len(players) THEN <<>>
    ELSE SegmentEvents(compute_segments(players[i]), 1) \o PlayerEvents(players, i + 1)

\* mutant: at equal times +1 sorts before -1
EventLe_PlusFirst(a, b) ==
    IF a[1] = b[1] THEN a[2] >= b[2] ELSE RLt(a[1], b[1])

\* the sort key (x[0], x[1]): by time, then by delta
EventLe(a, b) ==
    IF a[1] = b[1] THEN a[2] <= b[2] ELSE RLt(a[1], b[1])

RECURSIVE InsertEvent(_, _)
InsertEvent(sorted, ev) ==
    IF sorted = <<>> THEN <<ev>>
    ELSE IF EventLe(sorted[Len(sorted)], ev)
         THEN Append(sorted, ev)
         ELSE Append(InsertEvent(SubSeq(sorted, 1, Len(sorted) - 1), ev), sorted[Len(sorted)])

RECURSIVE SortEvents(_, _)
\* events.sort(key=...): a stable sort, by insertion of events[n] into events[1..n-1] sorted
SortEvents(events, n) ==
    IF n = 0 THEN <<>>
    ELSE InsertEvent(SortEvents(events, n - 1), events[n])

\* mutant: the events are walked in the order they were appended
Sorted_AsAppended(events) ==
    events

\* events.sort(key=...) on the whole list
Sorted(events) ==
    SortEvents(events, Len(events))

\* the sorted event list of team_oncourt_steps, the two domain events included
SortedEvents(players) ==
    Sorted(PlayerEvents(players, 1) \o << <<Zero, 0>>, <<FullGame, 0>> >>)

RECURSIVE Walk(_, _, _, _, _)
\* the loop over the sorted events: acc is the (x, y) points so far
Walk(events, i, acc, curr, last_t) ==
    IF i > Len(events) THEN acc
    ELSE LET t    == events[i][1]
             d    == events[i][2]
             acc1 == IF acc = <<>> THEN << <<last_t, curr>> >> ELSE acc
             acc2 == IF t # last_t THEN Append(acc1, <<t, curr>>) ELSE acc1
         IN  Walk(events, i + 1, Append(acc2, <<t, curr + d>>), curr + d, t)

RECURSIVE ScaledLe(_, _, _)
\* x * 1000^k <= bound, for x >= 0, left as soon as x exceeds the bound
ScaledLe(x, bound, k) ==
    IF k = 0 THEN RLe(x, bound)
    ELSE IF RLt(bound, x) THEN FALSE
    ELSE ScaledLe(RMul(x, Num(1000)), bound, k - 1)

\* math.isclose(a, b): abs(a - b) <= 1e-09 * max(abs(a), abs(b))
isclose(a, b) ==
    ScaledLe(RAbs(RSub(a, b)), RMax(RAbs(a), RAbs(b)), 3)

\* mutant: a point is dropped on its time alone
IsDuplicate_TimeOnly(pt, kept) ==
    isclose(pt[1], kept[1])

\* isclose(xs[i], out_x[-1]) and ys[i] == out_y[-1]
IsDuplicate(pt, kept) ==
    isclose(pt[1], kept[1]) /\ pt[2] = kept[2]

RECURSIVE Tidy(_, _, _)
\* the duplicate filter: a point is dropped when it repeats the last kept point
Tidy(pts, i, out) ==
    IF i > Len(pts) THEN out
    ELSE IF IsDuplicate(pts[i], out[Len(out)])
         THEN Tidy(pts, i + 1, out)
         ELSE Tidy(pts, i + 1, Append(out, pts[i]))

\* the final point at 48.0
EnsureFinal(out) ==
    IF out[Len(out)][1] # FullGame
    THEN Append(out, <<FullGame, out[Len(out)][2]>>)
    ELSE out

\* the points (out_x[i], out_y[i]) that team_oncourt_steps returns
\* mutant: the duplicate filter left out
Tidied_Untouched(pts) ==
    pts

\* out_x, out_y = [xs[0]], [ys[0]], then the duplicate filter over the rest
Tidied(pts) ==
    Tidy(pts, 2, <<pts[1]>>)

team_oncourt_steps(players) ==
    EnsureFinal(Tidied(Walk(SortedEvents(players), 1, <<>>, 0, Zero)))

(***************************************************************************)
(* Bounds and inputs.                                                      *)
(***************************************************************************)
\* longest candidate list handed to apply_boundaries
MaxEnds ==
    4

\* largest roster handed to team_oncourt_steps
MaxPlayers ==
    2

\* archetype ids a player can carry: None, empty, unknown, and every catalog id
ArchetypeIdInputs ==
    {None, "", "Unknown"} \cup DOMAIN get_config

\* below 0, the two ends of the range, inside the range, above 48
ExpectedMinutesInputs ==
    {Num(-5), Zero, Num(12), Num(30), Num(60)}

\* empty, Example 2's weights, an on-group summing to 0.7, weights above 1,
\* and a list longer than any pattern
StintsRawInputs ==
    { <<>>,
      <<Num(1), Num(1), Zero>>,
      <<Rat(3, 10), Num(1), Rat(4, 10)>>,
      <<Num(2), Num(1), Num(1)>>,
      [i \in 1..10 |-> Rat(1, 2)] }

PlayerInputs ==
    [archetype_id : ArchetypeIdInputs,
     expected_minutes : ExpectedMinutesInputs,
     stints_raw : StintsRawInputs]

\* the same players, and players whose weights hold a negative value: one that
\* brings a group's sum to exactly 0, one next to a weight above 1
SegmentPlayerInputs ==
    [archetype_id : ArchetypeIdInputs,
     expected_minutes : ExpectedMinutesInputs,
     stints_raw : StintsRawInputs \cup { <<Num(-1), Num(1), Num(1)>>,
                                         <<Rat(17, 10), Num(1), Num(-1)>>,
                                         <<Num(2), Num(1), Num(-1)>> }]

\* the edit session: archetypes the selectbox offers (NotSet, one stint, three
\* stints, five stints), minutes the number input accepts, candidate lists
SessionArchetypeInputs ==
    {None, "GarbageTime", "NonStarterNonCloserOneStint", "StarterCloserThreeStints"}

SessionMinutesInputs ==
    {Zero, Num(30), FullGame}

SessionPlayerInputs ==
    [archetype_id : SessionArchetypeInputs \cup {"Unknown"},
     expected_minutes : ExpectedMinutesInputs,
     stints_raw : { <<>>, <<Num(2), Num(1), Num(1)>>, <<Num(-1), Num(1), Num(1)>> }]

\* candidate end lists of length n: increasing past 48, decreasing from above 48
\* to below 0 (reversed), and all equal (duplicates)
Ascending(n) ==
    [i \in 1..n |-> Num(13 * i)]

Descending(n) ==
    [i \in 1..n |-> Num(50 - 26 * (i - 1))]

Constant(n) ==
    [i \in 1..n |-> Num(20)]

EndsInputs ==
    {<<>>} \cup {Ascending(n) : n \in 1..MaxEnds}
           \cup {Descending(n) : n \in 1..MaxEnds}
           \cup {Constant(n) : n \in 1..MaxEnds}

\* the editor's gap, a wide gap that still fits every pattern, and one that cannot fit
MinGapInputs ==
    {DefaultGap, Num(5), Num(30)}

\* stint patterns a catalog entry can carry: the specification's Example 1,
\* the shortest bench pattern, a single stint
PatternInputs ==
    { <<"on", "off", "on">>, <<"off", "on", "off">>, <<"on">> }

\* the candidate lists of the edit session: none, reversed and out of range,
\* duplicates, increasing
SessionEndsInputs ==
    {<<>>, Descending(MaxEnds), Constant(2), Ascending(MaxEnds)}

\* rosters for the aggregator: not set, and three patterns whose default
\* segments start and end at shared times
TeamArchetypeInputs ==
    {None, "NonStarterNonCloserOneStint",
     "StarterCloserThreeStints", "NonStarterCloserThreeStints"}

\* the single player of the specification's Example 2
Example2Player ==
    [archetype_id |-> "NonStarterNonCloserOneStint",
     expected_minutes |-> Num(12),
     stints_raw |-> <<Num(1), Num(1), Zero>>]

TeamPlayerInputs ==
    [archetype_id : TeamArchetypeInputs,
     expected_minutes : {Zero, Num(12), Num(24), FullGame},
     stints_raw : {<<>>}]
    \cup {Example2Player}

RECURSIVE SeqsUpTo(_, _)
\* the sequences over S of length at most n
SeqsUpTo(S, n) ==
    IF n = 0 THEN {<<>>}
    ELSE LET shorter == SeqsUpTo(S, n - 1)
         IN  shorter \cup {Append(q, x) : q \in {r \in shorter : Len(r) = n - 1}, x \in S}

(***************************************************************************)
(* State: the roster (Team.players), and the last call with its arguments  *)
(* and what it returned or built.                                          *)
(***************************************************************************)
VARIABLES team, call, ret

vars ==
    <<team, call, ret>>

NoCall ==
    [op |-> "none", who |-> 0, ends |-> <<>>, min_gap |-> Zero, pattern |-> <<>>]

NoRet ==
    [segs |-> <<>>, bounds |-> <<>>, out_ends |-> <<>>, events |-> <<>>, points |-> <<>>,
     weights |-> <<>>, on_total |-> Zero, off_total |-> Zero]

\* one imported player, for the editor
Init ==
    /\ team \in {<<p>> : p \in PlayerInputs}
    /\ call = NoCall
    /\ ret = NoRet

\* one imported player, for the read operations
InitSegments ==
    /\ team \in {<<p>> : p \in SegmentPlayerInputs}
    /\ call = NoCall
    /\ ret = NoRet

\* one imported player, for the edit session
InitSession ==
    /\ team \in {<<p>> : p \in SessionPlayerInputs}
    /\ call = NoCall
    /\ ret = NoRet

\* an imported roster, for the aggregator
InitTeam ==
    /\ team \in SeqsUpTo(TeamPlayerInputs, MaxPlayers)
    /\ call = NoCall
    /\ ret = NoRet

\* mutant: the filled list is written into the player
ComputeSegments_WritesFill(i) ==
    /\ call' = [NoCall EXCEPT !.op = "compute_segments", !.who = i]
    /\ ret' = [NoRet EXCEPT !.segs = compute_segments(team[i])]
    /\ team' = [team EXCEPT ![i].stints_raw = ensure_default_percentages(team[i])]

ComputeSegments(i) ==
    /\ call' = [NoCall EXCEPT !.op = "compute_segments", !.who = i]
    /\ ret' = [NoRet EXCEPT !.segs = compute_segments(team[i])]
    /\ UNCHANGED team

\* compute_segments(team[i]) under a catalog whose entry for the player's archetype
\* carries the given pattern; ret keeps the totals and the filled weights it used
ComputeSegmentsOfPattern(i) ==
    \E pattern \in PatternInputs :
        /\ call' = [NoCall EXCEPT !.op = "segments_of_pattern", !.who = i,
                                   !.pattern = pattern]
        /\ ret' = [NoRet EXCEPT
                      !.segs = SegmentsOf(pattern, team[i].expected_minutes,
                                          team[i].stints_raw),
                      !.weights = FillDefaults(pattern,
                                               PadRaw(team[i].stints_raw, Len(pattern)),
                                               IndicesOf(pattern, 1, TRUE),
                                               IndicesOf(pattern, 1, FALSE)),
                      !.on_total = OnTotal(team[i].expected_minutes),
                      !.off_total = OffTotal(team[i].expected_minutes)]
        /\ UNCHANGED team

ComputeDefaultBoundaries(i) ==
    /\ call' = [NoCall EXCEPT !.op = "compute_default_boundaries", !.who = i]
    /\ ret' = [NoRet EXCEPT !.bounds = compute_default_boundaries(team[i])]
    /\ UNCHANGED team

\* the sanitized list apply_boundaries builds for this player, [] when it returns early
BuiltEnds(player, ends, min_gap) ==
    IF ReturnsEarly(player) THEN <<>>
    ELSE out_ends(Len(get_config[player.archetype_id].stint_pattern), ends, min_gap)

\* apply_boundaries(team[i], ends, min_gap) with an arbitrary candidate list
ApplyBoundaries(i) ==
    \E ends \in EndsInputs, min_gap \in MinGapInputs :
        /\ call' = [NoCall EXCEPT !.op = "apply_boundaries", !.who = i,
                                   !.ends = ends, !.min_gap = min_gap]
        /\ team' = [team EXCEPT ![i] = apply_boundaries(team[i], ends, min_gap)]
        /\ ret' = [NoRet EXCEPT !.out_ends = BuiltEnds(team[i], ends, min_gap)]

\* the round trip: segments, then default boundaries, then apply_boundaries with
\* those boundaries and the editor's gap; ret keeps the segments and boundaries
\* computed before the edit
RoundTrip(i) ==
    \E b \in {compute_default_boundaries(team[i])} :
        /\ call' = [NoCall EXCEPT !.op = "round_trip", !.who = i,
                                   !.ends = b, !.min_gap = DefaultGap]
        /\ team' = [team EXCEPT ![i] = apply_boundaries(team[i], b, DefaultGap)]
        /\ ret' = [NoRet EXCEPT !.segs = compute_segments(team[i]),
                                !.bounds = b,
                                !.out_ends = BuiltEnds(team[i], b, DefaultGap)]

\* the Expected Minutes number input (min_value 0.0, max_value 48.0)
SetExpectedMinutes(i) ==
    \E m \in SessionMinutesInputs :
        /\ m # team[i].expected_minutes
        /\ call' = [NoCall EXCEPT !.op = "set_expected_minutes", !.who = i]
        /\ team' = [team EXCEPT ![i].expected_minutes = m]
        /\ ret' = NoRet

\* the Archetype selectbox: a changed archetype wipes stints_raw
ChangeArchetype(i) ==
    \E a \in SessionArchetypeInputs :
        /\ a # team[i].archetype_id
        /\ call' = [NoCall EXCEPT !.op = "change_archetype", !.who = i]
        /\ team' = [team EXCEPT ![i].archetype_id = a, ![i].stints_raw = <<>>]
        /\ ret' = NoRet

\* an edit of the boundaries: apply_boundaries with the editor's gap
EditBoundaries(i) ==
    \E ends \in SessionEndsInputs :
        /\ call' = [NoCall EXCEPT !.op = "apply_boundaries", !.who = i,
                                   !.ends = ends, !.min_gap = DefaultGap]
        /\ team' = [team EXCEPT ![i] = apply_boundaries(team[i], ends, DefaultGap)]
        /\ ret' = [NoRet EXCEPT !.out_ends = BuiltEnds(team[i], ends, DefaultGap)]

TeamOncourtSteps ==
    /\ call' = [NoCall EXCEPT !.op = "team_oncourt_steps"]
    /\ ret' = [NoRet EXCEPT !.events = SortedEvents(team),
                            !.points = team_oncourt_steps(team)]
    /\ UNCHANGED team

Next ==
    \/ \E i \in 1..Len(team) : ComputeSegments(i)
    \/ \E i \in 1..Len(team) : ComputeDefaultBoundaries(i)
    \/ \E i \in 1..Len(team) : ApplyBoundaries(i)
    \/ \E i \in 1..Len(team) : RoundTrip(i)
    \/ TeamOncourtSteps

Spec ==
    Init /\ [][Next]_vars

\* the read operations on one imported player
NextSegments ==
    \/ \E i \in 1..Len(team) : ComputeSegments(i)
    \/ \E i \in 1..Len(team) : ComputeSegmentsOfPattern(i)
    \/ \E i \in 1..Len(team) : ComputeDefaultBoundaries(i)

SpecSegments ==
    InitSegments /\ [][NextSegments]_vars

\* the user operations of an edit session on one player
NextSession ==
    \/ \E i \in 1..Len(team) : SetExpectedMinutes(i)
    \/ \E i \in 1..Len(team) : ChangeArchetype(i)
    \/ \E i \in 1..Len(team) : EditBoundaries(i)

SpecSession ==
    InitSession /\ [][NextSession]_vars

NextTeam ==
    \/ \E i \in 1..Len(team) : ComputeSegments(i)
    \/ TeamOncourtSteps

SpecTeam ==
    InitTeam /\ [][NextTeam]_vars

(***************************************************************************)
(* Properties.                                                             *)
(***************************************************************************)
\* the player the last call was made on
Who ==
    team[call.who]

\* L segments, the first from 0, each later one from the previous end, none
\* running backwards, the last one to 48
CoversGame(segs, L) ==
    /\ Len(segs) = L
    /\ segs[1][1] = Zero
    /\ \A i \in 2..L : segs[i][1] = segs[i - 1][2]
    /\ \A i \in 1..L : RLe(segs[i][1], segs[i][2])
    /\ segs[L][2] = FullGame

\* C1: for a player whose archetype resolves (pattern length L), compute_segments
\* returns exactly L segments, the first starting at 0, each later one starting at
\* the previous end, each with start <= end, the last ending at 48 exactly.
C1_SegmentsCoverGame ==
    (call.op = "compute_segments" /\ Resolves(Who.archetype_id))
        => CoversGame(ret.segs, Len(PatternOf(Who)))

\* a nine-stint player whose running end reaches 48 before the last stint
C1_Witness ==
    /\ call.op = "compute_segments"
    /\ Resolves(Who.archetype_id)
    /\ Len(ret.segs) = 9
    /\ ret.segs[3][2] = FullGame
    /\ Len(Who.stints_raw) > 9

\* the 1e-6 of the round-trip law
Tolerance ==
    <<1, 1000000>>

\* same length, same tags, every start and end within 1e-6
SegsClose(a, b) ==
    /\ Len(a) = Len(b)
    /\ \A i \in 1..Len(a) :
        /\ a[i][3] = b[i][3]
        /\ RLe(RAbs(RSub(a[i][1], b[i][1])), Tolerance)
        /\ RLe(RAbs(RSub(a[i][2], b[i][2])), Tolerance)

InGame(x) ==
    RLe(Zero, x) /\ RLe(x, FullGame)

\* this step is a round trip on a player with a resolvable archetype and
\* expected_minutes in [0, 48]
RoundTripStep ==
    /\ call'.op = "round_trip"
    /\ Resolves(team[call'.who].archetype_id)
    /\ InGame(team[call'.who].expected_minutes)

\* every segment but the last is at least 0.001 long
NonFinalAtLeastGap(segs) ==
    \A i \in 1..(Len(segs) - 1) : RLe(DefaultGap, RSub(segs[i][2], segs[i][1]))

\* C2 as stated: after b = compute_default_boundaries(player) and
\* apply_boundaries(player, b, 0.001), compute_segments(player) is within 1e-6 of
\* the segments computed before the edit, for any expected_minutes in [0, 48] and
\* any stints_raw.
C2_RoundTripAnyPlayer ==
    [][RoundTripStep
        => SegsClose(compute_segments(team'[call'.who]), ret'.segs)]_vars

\* C2 amended: the round trip reproduces the segments within 1e-6 when every
\* segment but the last was at least 0.001 minutes long before the edit.
C2_RoundTripWellFormed ==
    [][(RoundTripStep /\ NonFinalAtLeastGap(ret'.segs))
        => SegsClose(compute_segments(team'[call'.who]), ret'.segs)]_vars

\* a round trip done on a five-stint player with unequal weights, whose
\* default boundaries went through the sanitizer untouched
C2_Witness ==
    /\ call.op = "round_trip"
    /\ Resolves(Who.archetype_id)
    /\ Len(ret.segs) >= 5
    /\ NonFinalAtLeastGap(ret.segs)
    /\ ret.out_ends = ret.bounds
    /\ Who.stints_raw[1] # Who.stints_raw[3]

\* the last call was apply_boundaries (alone or in a round trip) past its early returns
Applied ==
    /\ call.op \in {"apply_boundaries", "round_trip"}
    /\ Resolves(Who.archetype_id)

\* C3: the sanitized sequence has exactly L-1 values, its first is >= min_gap and
\* consecutive values differ by at least min_gap, for any candidate list and gap.
C3_SanitizedIncreasing ==
    Applied =>
        LET L  == Len(PatternOf(Who))
            oe == ret.out_ends
        IN  /\ Len(oe) = L - 1
            /\ L > 1 => RLe(call.min_gap, oe[1])
            /\ \A k \in 1..(L - 2) : RLe(call.min_gap, RSub(oe[k + 1], oe[k]))

\* a reversed candidate list, longer than L-1, with values outside [0, 48]
C3_Witness ==
    /\ call.op = "apply_boundaries"
    /\ Resolves(Who.archetype_id)
    /\ Len(PatternOf(Who)) = 3
    /\ Len(call.ends) = 3
    /\ RLt(FullGame, call.ends[1])
    /\ RLt(call.ends[3], call.ends[2])
    /\ RLt(call.ends[3], Zero)

\* sanitized boundary k (the source's k-1) is at most 48 - (L-1-k) * min_gap
RoomLeft(L, oe, min_gap) ==
    \A k \in 1..(L - 1) :
        RLe(oe[k], RSub(FullGame, RMul(Num(L - 1 - k), min_gap)))

C5_StepsWellFormed ==
    call.op = "team_oncourt_steps" =>
        LET pts == ret.points
        IN  /\ Len(pts) >= 1
            /\ \A i \in 1..Len(pts) : pts[i][2] >= 0 /\ InGame(pts[i][1])
            /\ \A i \in 1..(Len(pts) - 1) : RLe(pts[i][1], pts[i + 1][1])
            /\ pts[1][1] = Zero
            /\ pts[Len(pts)][1] = FullGame

\* a roster of two where both players are on court at once and the court is
\* empty at the end
C5_Witness ==
    /\ call.op = "team_oncourt_steps"
    /\ Len(team) = 2
    /\ \E i \in 1..Len(ret.points) : ret.points[i][2] = 2
    /\ ret.points[Len(ret.points)][2] = 0

\* the count of the last point before time t (0 when there is none)
CountBefore(pts, t) ==
    LET earlier == {i \in 1..Len(pts) : RLt(pts[i][1], t)}
    IN  IF earlier = {} THEN 0
        ELSE pts[CHOOSE i \in earlier : \A j \in earlier : j <= i][2]

\* the count of the last point at time t
CountAfter(pts, t) ==
    LET at == {i \in 1..Len(pts) : pts[i][1] = t}
    IN  pts[CHOOSE i \in at : \A j \in at : j <= i][2]

\* C6: among events at one time every -1 comes before any +1, and no count
\* emitted at a time t exceeds the larger of the count just before t and the
\* count after all deltas at t.
C6_DecrementsFirst ==
    call.op = "team_oncourt_steps" =>
        /\ \A i, j \in 1..Len(ret.events) :
              (i < j /\ ret.events[i][1] = ret.events[j][1] /\ ret.events[i][2] = 1)
                  => ret.events[j][2] # -1
        /\ \A i \in 1..Len(ret.points) :
              LET t == ret.points[i][1]
                  b == CountBefore(ret.points, t)
                  a == CountAfter(ret.points, t)
              IN  ret.points[i][2] <= (IF a > b THEN a ELSE b)

\* a sub-out and a sub-in of two different players at the same time
C6_Witness ==
    /\ call.op = "team_oncourt_steps"
    /\ Len(team) = 2
    /\ \E k \in 1..Len(compute_segments(team[1])) :
       \E m \in 1..Len(compute_segments(team[2])) :
          LET sub_out == compute_segments(team[1])[k]
              sub_in  == compute_segments(team[2])[m]
          IN  /\ CountsOnCourt(sub_out) /\ CountsOnCourt(sub_in)
              /\ sub_out[2] = sub_in[1]

\* this step is apply_boundaries on a player whose archetype has a single stint
SingleStintApplyStep ==
    /\ call'.op = "apply_boundaries"
    /\ Resolves(team[call'.who].archetype_id)
    /\ Len(PatternOf(team[call'.who])) = 1

\* C7: apply_boundaries on a single-stint archetype (L = 1) leaves expected_minutes
\* and stints_raw exactly as they were.
C7_SingleStintNoOp ==
    [][SingleStintApplyStep =>
        /\ team'[call'.who].expected_minutes = team[call'.who].expected_minutes
        /\ team'[call'.who].stints_raw = team[call'.who].stints_raw]_vars

\* the domain events alone: (0.0, 0) and (48.0, 0)
DomainEvents ==
    << <<Zero, 0>>, <<FullGame, 0>> >>

\* C8: for a player whose archetype_id is None, empty or unknown, compute_segments
\* and compute_default_boundaries return [], apply_boundaries leaves every field
\* unchanged, and the player contributes no events to team_oncourt_steps.
C8_NoArchetypeNothingToCompute ==
    [][(call'.op # "none" /\ \A i \in 1..Len(team) : ~Resolves(team[i].archetype_id)) =>
        /\ team' = team
        /\ call'.op = "compute_segments" => ret'.segs = <<>>
        /\ call'.op = "compute_default_boundaries" => ret'.bounds = <<>>
        /\ call'.op = "round_trip" => ret'.segs = <<>> /\ ret'.bounds = <<>>
        /\ call'.op = "team_oncourt_steps" => ret'.events = DomainEvents]_vars

\* apply_boundaries called with a candidate list on a player with an unknown
\* archetype id who carries weights and minutes
C8_Witness ==
    /\ call.op = "apply_boundaries"
    /\ Who.archetype_id = "Unknown"
    /\ call.ends # <<>>
    /\ Who.stints_raw # <<>>
    /\ Who.expected_minutes = Num(30)

\* duration of segment i of the L segments that boundaries oe imply
ImpliedDuration(L, oe, i) ==
    RSub(IF i = L THEN FullGame ELSE oe[i], IF i = 1 THEN Zero ELSE oe[i - 1])

RECURSIVE GroupTotal(_, _, _, _)
\* sum of the implied durations of the segments i..L whose tag is tag
GroupTotal(pattern, oe, tag, i) ==
    IF i > Len(pattern) THEN Zero
    ELSE RAdd(IF pattern[i] = tag THEN ImpliedDuration(Len(pattern), oe, i) ELSE Zero,
              GroupTotal(pattern, oe, tag, i + 1))

\* the write-back is the inverse of the weight-to-duration step
InverseOfSegments(player, oe) ==
    LET pattern == PatternOf(player)
        L       == Len(pattern)
        total   == [tag \in {"on", "off"} |-> GroupTotal(pattern, oe, tag, 1)]
        segs    == compute_segments(player)
    IN  /\ player.expected_minutes = RMax(Zero, RMin(FullGame, total["on"]))
        /\ Len(player.stints_raw) = L
        /\ \A i \in 1..L :
              player.stints_raw[i] =
                  IF total[pattern[i]] = Zero THEN Zero
                  ELSE RDiv(ImpliedDuration(L, oe, i), total[pattern[i]])
        /\ Len(segs) = L
        /\ \A i \in 1..(L - 1) : segs[i][2] = oe[i]

Example2Done ==
    /\ call.op = "team_oncourt_steps"
    /\ team = <<Example2Player>>

\* C10 as stated: Example 2's on segment is [36, 48] and team_oncourt_steps
\* yields (0,0), (36,0), (36,1), (48,1), the final point at 48 with count 1.
C10_Example2EndsAtOne ==
    Example2Done =>
        /\ compute_segments(team[1])[2] = <<Num(36), FullGame, "on">>
        /\ ret.points = << <<Zero, 0>>, <<Num(36), 0>>, <<Num(36), 1>>, <<FullGame, 1>> >>
        /\ ret.points[Len(ret.points)] = <<FullGame, 1>>

\* C10 amended: the on segment is [36, 48] and team_oncourt_steps yields
\* (0,0), (36,0), (36,1), (48,1), (48,0): the final point is at 48 with count 0.
C10_Example2EndsAtZero ==
    Example2Done =>
        /\ compute_segments(team[1])[2] = <<Num(36), FullGame, "on">>
        /\ ret.points = << <<Zero, 0>>, <<Num(36), 0>>, <<Num(36), 1>>,
                           <<FullGame, 1>>, <<FullGame, 0>> >>

C10_Witness ==
    /\ Example2Done
    /\ Len(ret.points) = 5
    /\ ret.events = << <<Zero, 0>>, <<Num(36), 1>>, <<FullGame, -1>>, <<FullGame, 0>> >>

\* the player, pattern and call of the specification's Example 1
Example1Done ==
    /\ call.op = "segments_of_pattern"
    /\ call.pattern = <<"on", "off", "on">>
    /\ Who.expected_minutes = Num(30)
    /\ Who.stints_raw = <<>>

\* C11: Example 1: pattern [on, off, on], expected_minutes = 30, empty stints_raw:
\* on_total = 30, off_total = 18, the on weights are filled to 0.5 each and the off
\* weight to 1.0, and the segments are exactly (0,15,on), (15,33,off), (33,48,on).
C11_Example1 ==
    Example1Done =>
        /\ ret.on_total = Num(30)
        /\ ret.off_total = Num(18)
        /\ ret.weights = <<Rat(1, 2), Num(1), Rat(1, 2)>>
        /\ ret.segs = << <<Zero, Num(15), "on">>,
                         <<Num(15), Num(33), "off">>,
                         <<Num(33), FullGame, "on">> >>

\* Example 1 has been computed and returned three segments
C11_Witness ==
    /\ Example1Done
    /\ Len(ret.segs) = 3

\* the last call computed segments for a pattern: through the catalog, or with
\* the pattern given
SegmentsComputed ==
    \/ call.op = "segments_of_pattern"
    \/ call.op = "compute_segments" /\ Resolves(Who.archetype_id)

\* the pattern the last call computed segments for
ReadPattern ==
    IF call.op = "segments_of_pattern" THEN call.pattern ELSE PatternOf(Who)

\* weight i of the list, 0 past its end
GivenWeight(raw, i) ==
    IF i <= Len(raw) THEN raw[i] ELSE Zero

\* the stints of the pattern that carry the tag of stint i
GroupOf(pattern, i) ==
    {j \in 1..Len(pattern) : (pattern[j] = "on") = (pattern[i] = "on")}

RECURSIVE SumOfGiven(_, _)
\* the sum of the zero-padded weights over the stints in S
SumOfGiven(raw, S) ==
    IF S = {} THEN Zero
    ELSE LET j == CHOOSE k \in S : TRUE
         IN  RAdd(GivenWeight(raw, j), SumOfGiven(raw, S \ {j}))

\* the weight the policy gives stint i: 1/groupSize when the group sums to 0,
\* the given weight otherwise
PolicyWeight(pattern, raw, i) ==
    IF SumOfGiven(raw, GroupOf(pattern, i)) = Zero
    THEN Rat(1, Cardinality(GroupOf(pattern, i)))
    ELSE GivenWeight(raw, i)

\* m clamped into [0, 48]
ClampGame(m) ==
    IF RLt(m, Zero) THEN Zero ELSE IF RLt(FullGame, m) THEN FullGame ELSE m

\* on_total for an "on" stint, 48 - on_total for an "off" stint
PolicyTotal(pattern, m, i) ==
    IF pattern[i] = "on" THEN ClampGame(m) ELSE RSub(FullGame, ClampGame(m))

\* weight times group total, floored at 0
PolicyDuration(pattern, player, i) ==
    RMax(Zero, RMul(PolicyWeight(pattern, player.stints_raw, i),
                    PolicyTotal(pattern, player.expected_minutes, i)))

\* C12: a group whose zero-padded weights sum to exactly 0 gets 1/groupSize each, any
\* other group keeps its weights as given (no renormalization), and every non-final
\* stint lasts weight * group total, floored at 0, until the running end reaches 48.
C12_DefaultFillPolicy ==
    SegmentsComputed =>
        /\ call.op = "segments_of_pattern" =>
               ret.weights = [i \in 1..Len(ReadPattern) |->
                                 PolicyWeight(ReadPattern, Who.stints_raw, i)]
        /\ \A i \in 1..(Len(ReadPattern) - 1) :
               ret.segs[i][2] = RMin(FullGame, RAdd(ret.segs[i][1],
                                                    PolicyDuration(ReadPattern, Who, i)))

\* a five-stint player whose on weights -1, 1, 0 sum to 0 and are filled to a third
\* each, and whose off weights 1, 0 are kept as given
C12_Witness ==
    /\ call.op = "compute_segments"
    /\ Resolves(Who.archetype_id)
    /\ Who.stints_raw = <<Num(-1), Num(1), Num(1)>>
    /\ Who.expected_minutes = Num(30)
    /\ Len(ret.segs) = 5
    /\ ret.segs[1][2] = Num(10)
    /\ ret.segs[2][2] = Num(28)
    /\ ret.segs[4][1] = ret.segs[4][2]

StrictlyIncreasing(seq) ==
    \A k \in 1..(Len(seq) - 1) : RLt(seq[k], seq[k + 1])

\* when the archetype resolves, the segments cover the game and the default
\* boundaries are L-1 strictly increasing values
ReadsConsistent(player) ==
    Resolves(player.archetype_id) =>
        /\ CoversGame(compute_segments(player), Len(PatternOf(player)))
        /\ Len(compute_default_boundaries(player)) = Len(PatternOf(player)) - 1
        /\ StrictlyIncreasing(compute_default_boundaries(player))

CountsAt(pts, t) ==
    LET At(p) == p[1] = t
        sel   == SelectSeq(pts, At)
    IN  [k \in 1..Len(sel) |-> sel[k][2]]

\* the deltas of the sorted events at time t, in sorted order
DeltasAt(events, t) ==
    LET At(e) == e[1] = t
        sel   == SelectSeq(events, At)
    IN  [k \in 1..Len(sel) |-> sel[k][2]]

RECURSIVE SumInts(_)
SumInts(seq) ==
    IF seq = <<>> THEN 0 ELSE Head(seq) + SumInts(Tail(seq))

\* the running count before any delta at time t
RunningBefore(events, t) ==
    LET Earlier(e) == RLt(e[1], t)
        sel        == SelectSeq(events, Earlier)
    IN  SumInts([k \in 1..Len(sel) |-> sel[k][2]])

\* the running count after all deltas at time t
RunningAfter(events, t) ==
    RunningBefore(events, t) + SumInts(DeltasAt(events, t))

RECURSIVE Collapse(_)
\* consecutive equal entries collapsed to one
Collapse(seq) ==
    IF Len(seq) <= 1 THEN seq
    ELSE IF seq[1] = seq[2] THEN Collapse(Tail(seq))
    ELSE <<seq[1]>> \o Collapse(Tail(seq))

\* the count before any delta at t, then the count after each delta at t in turn
CountsThrough(events, t) ==
    [k \in 1..(Len(DeltasAt(events, t)) + 1) |->
        RunningBefore(events, t) + SumInts(SubSeq(DeltasAt(events, t), 1, k - 1))]

EventTimes ==
    {ret.events[k][1] : k \in 1..Len(ret.events)}

\* C14 as stated: at each distinct time t the output holds only (t, count before any
\* delta at t) and then (t, count after all deltas at t), one point when they are
\* equal; no point carries an intermediate count.
C14_OnlyBeforeAndAfter ==
    call.op = "team_oncourt_steps" =>
        \A t \in EventTimes :
            CountsAt(ret.points, t)
                = Collapse(<<RunningBefore(ret.events, t), RunningAfter(ret.events, t)>>)

\* C14 amended: at each distinct time t the output holds (t, count before any delta
\* at t) and then one point after each delta at t in sorted order, consecutive equal
\* points collapsed: intermediate counts appear when several deltas share a time,
\* and the last point at t carries the count after all deltas at t.
C14_AfterEachDelta ==
    call.op = "team_oncourt_steps" =>
        /\ \A i \in 1..Len(ret.points) : ret.points[i][1] \in EventTimes
        /\ \A t \in EventTimes :
              /\ CountsAt(ret.points, t) = Collapse(CountsThrough(ret.events, t))
              /\ CountAfter(ret.points, t) = RunningAfter(ret.events, t)

\* two players who both come on at time 0: the output holds (0,0), (0,1), (0,2)
C14_Witness ==
    /\ call.op = "team_oncourt_steps"
    /\ Len(team) = 2
    /\ CountsAt(ret.points, Zero) = <<0, 1, 2>>
    /\ RunningAfter(ret.events, Zero) = 2

\* the count of the last output point whose time is <= t
StepValue(pts, t) ==
    LET upto == {i \in 1..Len(pts) : RLe(pts[i][1], t)}
    IN  pts[CHOOSE i \in upto : \A j \in upto : j <= i][2]

\* the player is on court at time t: an "on" segment of positive duration with
\* start <= t < end
OnCourtAt(segs, t) ==
    \E k \in 1..Len(segs) :
        /\ segs[k][3] = "on"
        /\ RLt(segs[k][1], segs[k][2])
        /\ RLe(segs[k][1], t)
        /\ RLt(t, segs[k][2])

\* the times in [0, 48) at which the output or a player's segments can change; both
\* the output step function and the occupancy are constant between two of them
ChangeTimes(pts, segsOf) ==
    {x \in {pts[i][1] : i \in 1..Len(pts)}
            \cup UNION {{segsOf[i][k][1] : k \in 1..Len(segsOf[i])} : i \in 1..Len(segsOf)}
            \cup UNION {{segsOf[i][k][2] : k \in 1..Len(segsOf[i])} : i \in 1..Len(segsOf)} :
        RLt(x, FullGame)}

\* C15: for every team and every time t in [0, 48), the count of the last output point
\* whose time is <= t is the number of players with an "on" segment of positive
\* duration with start <= t < end.
C15_StepsAreOccupancy ==
    call.op = "team_oncourt_steps" =>
        LET segsOf == [i \in 1..Len(team) |-> compute_segments(team[i])]
        IN  \A t \in ChangeTimes(ret.points, segsOf) :
                StepValue(ret.points, t)
                    = Cardinality({i \in 1..Len(team) : OnCourtAt(segsOf[i], t)})

\* two players, one coming on where the other goes off, and a time inside the game
\* at which both are on court
C15_Witness ==
    /\ call.op = "team_oncourt_steps"
    /\ Len(team) = 2
    /\ \E t \in {ret.points[i][1] : i \in 1..Len(ret.points)} :
          /\ RLt(Zero, t) /\ RLt(t, FullGame)
          /\ StepValue(ret.points, t) = 2
          /\ OnCourtAt(compute_segments(team[1]), t)
          /\ OnCourtAt(compute_segments(team[2]), t)
    /\ \E t \in {ret.points[i][1] : i \in 1..Len(ret.points)} :
          /\ OnCourtAt(compute_segments(team[1]), t)
          /\ ~OnCourtAt(compute_segments(team[2]), t)
          /\ StepValue(ret.points, t) = 1

\* the "on" stints of the pattern
OnStints(pattern) ==
    {i \in 1..Len(pattern) : pattern[i] = "on"}

RECURSIVE LengthOver(_, _)
\* the total duration of the segments with index in K
LengthOver(segs, K) ==
    IF K = {} THEN Zero
    ELSE LET k == CHOOSE j \in K : TRUE
         IN  RAdd(RSub(segs[k][2], segs[k][1]), LengthOver(segs, K \ {k}))

\* segments were computed for a player with on_total > 0 whose on weights sum to
\* a positive value less than 1
OnWeightsFallShort ==
    /\ SegmentsComputed
    /\ RLt(Zero, ClampGame(Who.expected_minutes))
    /\ RLt(Zero, SumOfGiven(Who.stints_raw, OnStints(ReadPattern)))
    /\ RLt(SumOfGiven(Who.stints_raw, OnStints(ReadPattern)), Num(1))

\* C16 as stated: with on_total > 0 and on weights summing to a positive value less
\* than 1, compute_segments returns segments whose on-tagged ones total less than
\* on_total.
C16_OnSegmentsFallShort ==
    OnWeightsFallShort =>
        /\ CoversGame(ret.segs, Len(ReadPattern))
        /\ RLt(LengthOver(ret.segs, OnStints(ReadPattern)),
               ClampGame(Who.expected_minutes))

\* C16 amended: with on_total > 0 and non-negative on weights summing to a positive
\* value less than 1, compute_segments returns L segments covering the game whose
\* on-tagged ones, the final stint left out, total less than on_total; the final
\* stint runs to 48 whatever its weight.
C16_NonFinalOnSegmentsFallShort ==
    (OnWeightsFallShort
        /\ \A i \in OnStints(ReadPattern) : RLe(Zero, GivenWeight(Who.stints_raw, i)))
    =>  /\ CoversGame(ret.segs, Len(ReadPattern))
        /\ RLt(LengthOver(ret.segs, OnStints(ReadPattern) \ {Len(ReadPattern)}),
               ClampGame(Who.expected_minutes))

\* a three-on-stint starter with on weights 0.3, 0.4, 0 and 30 expected minutes:
\* on segments of 9 and 12 minutes, and a final on segment stretched to 48
C16_Witness ==
    /\ OnWeightsFallShort
    /\ call.op = "compute_segments"
    /\ Who.expected_minutes = Num(30)
    /\ Who.stints_raw = <<Rat(3, 10), Num(1), Rat(4, 10)>>
    /\ Len(ret.segs) = 5
    /\ ret.segs[1] = <<Zero, Num(9), "on">>
    /\ ret.segs[3] = <<Num(27), Num(39), "on">>
    /\ ret.segs[5] = <<Num(39), FullGame, "on">>

\* the segments the last call would have returned for this player
SegmentsAgain(player) ==
    IF call.op = "segments_of_pattern"
    THEN SegmentsOf(call.pattern, player.expected_minutes, player.stints_raw)
    ELSE compute_segments(player)

\* every weight clamped into [0, 1]
ClampedWeights(raw) ==
    [i \in 1..Len(raw) |->
        IF RLt(raw[i], Zero) THEN Zero ELSE IF RLt(Num(1), raw[i]) THEN Num(1) ELSE raw[i]]

\* the segments are those of the player with expected_minutes clamped into [0, 48]
SameAsClampedMinutes ==
    ret.segs = SegmentsAgain([Who EXCEPT !.expected_minutes = ClampGame(@)])

\* C17 as stated: the segments for expected_minutes = m are those for clamp(m, 0, 48),
\* and the segments for weights outside [0, 1] are those for the weights clamped
\* into [0, 1].
C17_ClampsMinutesAndWeights ==
    SegmentsComputed =>
        /\ SameAsClampedMinutes
        /\ ret.segs = SegmentsAgain([Who EXCEPT !.stints_raw = ClampedWeights(@)])

\* C17 amended: the segments for expected_minutes = m are those for clamp(m, 0, 48);
\* weights outside [0, 1] are accepted and used as given: every non-final stint lasts
\* max(0, weight * group total), cut where the running end reaches 48.
C17_ClampsMinutesOnly ==
    SegmentsComputed =>
        /\ SameAsClampedMinutes
        /\ CoversGame(ret.segs, Len(ReadPattern))
        /\ \A i \in 1..(Len(ReadPattern) - 1) :
               RSub(ret.segs[i][2], ret.segs[i][1])
                   = RMin(RSub(FullGame, ret.segs[i][1]),
                          RMax(Zero, RMul(PolicyWeight(ReadPattern, Who.stints_raw, i),
                                          PolicyTotal(ReadPattern, Who.expected_minutes, i))))

\* 12 expected minutes with on weights 2, 1, 0: a first on segment of 24 minutes,
\* twice on_total; and a player imported with 60 expected minutes
C17_Witness ==
    /\ call.op = "compute_segments"
    /\ Resolves(Who.archetype_id)
    /\ Who.stints_raw = <<Num(2), Num(1), Num(1)>>
    /\ Len(ret.segs) = 5
    /\ \/ Who.expected_minutes = Num(12) /\ ret.segs[1] = <<Zero, Num(24), "on">>
       \/ Who.expected_minutes = Num(60) /\ ret.segs[1] = <<Zero, FullGame, "on">>

\* compute_default_boundaries has just run on a player whose archetype resolves
BoundariesComputed ==
    /\ call.op = "compute_default_boundaries"
    /\ Resolves(Who.archetype_id)

\* consecutive values at least gap apart
SpacedBy(seq, gap) ==
    \A k \in 1..(Len(seq) - 1) : RLe(RAdd(seq[k], gap), seq[k + 1])

\* C18: for a player with a resolvable archetype of length L,
\* compute_default_boundaries returns exactly L-1 values, strictly increasing with
\* consecutive gaps of at least 0.001, all within [0, 48].
C18_DefaultBoundariesInGame ==
    BoundariesComputed =>
        /\ Len(ret.bounds) = Len(PatternOf(Who)) - 1
        /\ StrictlyIncreasing(ret.bounds)
        /\ SpacedBy(ret.bounds, DefaultGap)
        /\ \A k \in 1..Len(ret.bounds) : InGame(ret.bounds[k])

\* the list brought to length L: 0.0 appended when short, the first L entries when long
Normalised(stints_raw, L) ==
    [i \in 1..L |-> IF i <= Len(stints_raw) THEN stints_raw[i] ELSE Zero]

\* C19: for a player with a resolvable archetype of length L, compute_segments with
\* a stints_raw shorter than L equals compute_segments with the list padded with 0.0
\* to length L, and with a stints_raw longer than L equals compute_segments with
\* the list truncated to its first L entries.
C19_WrongLengthNormalised ==
    SegmentsComputed =>
        /\ Len(Normalised(Who.stints_raw, Len(ReadPattern))) = Len(ReadPattern)
        /\ ret.segs = SegmentsAgain([Who EXCEPT !.stints_raw = Normalised(@, Len(ReadPattern))])
        /\ CoversGame(ret.segs, Len(ReadPattern))

\* three weights for five stints: the two missing weights count as 0.0; and ten
\* weights for three stints
C19_Witness ==
    /\ SegmentsComputed
    /\ \/ /\ Len(ReadPattern) = 5
          /\ Who.stints_raw = <<Num(1), Num(1), Zero>>
          /\ Who.expected_minutes = Num(12)
          /\ ret.segs[2] = <<Num(12), FullGame, "off">>
          /\ ret.segs[4] = <<FullGame, FullGame, "off">>
       \/ /\ Len(ReadPattern) = 3
          /\ Len(Who.stints_raw) = 10
          /\ Who.expected_minutes = Num(12)
          /\ ret.segs[2][2] = Num(30)

\* the stints tagged "off"
OffStints(pattern) ==
    {i \in 1..Len(pattern) : pattern[i] # "on"}

\* the group's weights sum to exactly 1, or to 0 and the group gets default-filled
SumsToOneOrFilled(raw, S) ==
    \/ SumOfGiven(raw, S) = Num(1)
    \/ S # {} /\ SumOfGiven(raw, S) = Zero

\* as SumsToOneOrFilled, with no negative weight in a group that sums to 1
SharesOneOrFilled(raw, S) ==
    /\ S # {}
    /\ \/ SumOfGiven(raw, S) = Zero
       \/ /\ SumOfGiven(raw, S) = Num(1)
          /\ \A i \in S : RLe(Zero, GivenWeight(raw, i))

\* the on segments total clamp(expected_minutes, 0, 48), the off segments the rest
TotalsPreserved ==
    /\ LengthOver(ret.segs, OnStints(ReadPattern)) = ClampGame(Who.expected_minutes)
    /\ LengthOver(ret.segs, OffStints(ReadPattern))
           = RSub(FullGame, ClampGame(Who.expected_minutes))

\* C20 as stated: when the on-group weights sum to exactly 1 and the off-group
\* weights sum to exactly 1 (or a group sums to 0 and gets default-filled), the
\* on-tagged segments total clamp(expected_minutes, 0, 48) and the off-tagged
\* segments total 48 minus that value.
C20_TotalsPreserved ==
    (/\ SegmentsComputed
     /\ SumsToOneOrFilled(Who.stints_raw, OnStints(ReadPattern))
     /\ SumsToOneOrFilled(Who.stints_raw, OffStints(ReadPattern)))
    => TotalsPreserved

\* C20 amended: the same conclusion when the pattern has both on and off stints
\* and each group's weights either sum to 0 (default-filled) or are non-negative
\* and sum to exactly 1.
C20_TotalsPreservedInRange ==
    (/\ SegmentsComputed
     /\ SharesOneOrFilled(Who.stints_raw, OnStints(ReadPattern))
     /\ SharesOneOrFilled(Who.stints_raw, OffStints(ReadPattern)))
    => /\ CoversGame(ret.segs, Len(ReadPattern))
       /\ TotalsPreserved

\* weights 1, 1, 0 on the five-stint pattern with 12 expected minutes: 12 minutes
\* on, 36 off; and the same pattern default-filled with 30 expected minutes
C20_Witness ==
    /\ call.op = "compute_segments"
    /\ Resolves(Who.archetype_id)
    /\ Len(ret.segs) = 5
    /\ SharesOneOrFilled(Who.stints_raw, OnStints(ReadPattern))
    /\ SharesOneOrFilled(Who.stints_raw, OffStints(ReadPattern))
    /\ \/ /\ Who.stints_raw = <<Num(1), Num(1), Zero>>
          /\ Who.expected_minutes = Num(12)
          /\ ret.segs[1] = <<Zero, Num(12), "on">>
          /\ ret.segs[2] = <<Num(12), FullGame, "off">>
       \/ /\ Who.stints_raw = <<>>
          /\ Who.expected_minutes = Num(30)
          /\ ret.segs[1] = <<Zero, Num(10), "on">>
          /\ ret.segs[2] = <<Num(10), Num(19), "off">>

\* apply_boundaries has just run on player call.who
BoundariesApplied ==
    call.op = "apply_boundaries"

\* the players that carry this archetype id, whatever they held before
SameArchetype(archetype_id) ==
    {q \in PlayerInputs : q.archetype_id = archetype_id}

\* the player is what the call makes of every player with the same archetype
HistoryIndependent ==
    \A q \in SameArchetype(Who.archetype_id) :
        apply_boundaries(q, call.ends, call.min_gap) = Who

\* repeating the call with the same arguments changes nothing
Idempotent ==
    apply_boundaries(Who, call.ends, call.min_gap) = Who

\* C21 as stated: after apply_boundaries, expected_minutes and stints_raw are
\* determined only by the player's archetype, the candidate list and min_gap, not
\* by what the player held before; and repeating the call changes nothing.
C21_HistoryIndependent ==
    BoundariesApplied => (HistoryIndependent /\ Idempotent)

\* C21 amended: for a player whose archetype resolves, the fields after
\* apply_boundaries are determined only by the archetype, the candidate list
\* and min_gap; for every player, repeating the call changes nothing.
C21_HistoryIndependentWhenResolved ==
    BoundariesApplied =>
        /\ Resolves(Who.archetype_id) => HistoryIndependent
        /\ Idempotent

\* a five-stint player after an edit with four candidate ends and a gap of 5:
\* expected_minutes is a value no imported player holds
C21_Witness ==
    /\ BoundariesApplied
    /\ Resolves(Who.archetype_id)
    /\ Len(PatternOf(Who)) = 5
    /\ Len(call.ends) = 4
    /\ call.min_gap = Num(5)
    /\ Len(Who.stints_raw) = 5
    /\ Who.expected_minutes \notin ExpectedMinutesInputs

\* the read operations and the operations that run apply_boundaries
ReadOps ==
    {"compute_segments", "compute_default_boundaries", "team_oncourt_steps"}

WriteOps ==
    {"apply_boundaries", "round_trip"}

\* C22: compute_segments, compute_default_boundaries and team_oncourt_steps leave
\* every field of every player unchanged, also when default-fill or zero-padding
\* is applied internally; a step that changes a player runs apply_boundaries.
C22_ReadsArePure ==
    [][ /\ call'.op \in ReadOps => team' = team
        /\ team' # team => call'.op \in WriteOps ]_vars

\* compute_segments has default-filled an empty list for five stints, and the
\* player still holds the empty list
C22_Witness ==
    /\ call.op = "compute_segments"
    /\ Resolves(Who.archetype_id)
    /\ Who.stints_raw = <<>>
    /\ Who.expected_minutes = Num(30)
    /\ Len(ret.segs) = 5
    /\ ret.segs[1] = <<Zero, Num(10), "on">>

====
